---- MODULE Spec2Model ----
(***************************************************************************)
(* startup-exporter, the "export" command: the push endpoint               *)
(* (receiveStartupInfo), the scheduler loop (updateDeployScaleLatency),    *)
(* the gate (shouldUpdate / equal), the aggregator (doUpdate) and the      *)
(* shutdown (handleSignals, the channel done); and what the "collect"      *)
(* command reads and pushes (collect).                                     *)
(*                                                                         *)
(* Go strings that the code takes apart (container IDs, container names)   *)
(* are sequences of one-character strings; strings that are only compared  *)
(* (pod names, namespaces, deployment names) are TLA+ strings.  Go maps    *)
(* are functions whose DOMAIN is the set of keys present.                  *)
(***************************************************************************)
EXTENDS Integers, Sequences, FiniteSets, TLC

VARIABLES
    world,            \* the cluster the exporter runs against (an input, never changes)
    allInfo,          \* export.go:46   map[meta]containerStartupInfo
    updatedDeploy,    \* export.go:47   map[meta]map[string]struct{}
    avgGauge,         \* export.go:49   deployPodsAvgStartupLatency, label values -> value
    scaleGauge,       \* export.go:60   deployScaleLatency, label values -> value
    resp,             \* what receiveStartupInfo did for the last request: the status
                      \* code written, and whether it logged "received a new container"
    pc,               \* position of the scheduler goroutine
    deployments,      \* export.go:163  result of deploymentLister.List
    di,               \* index of the range loop of export.go:167
    pods,             \* export.go:174  result of podLister.Pods(ns).List
    lastPodNames,     \* export.go:258
    pi,               \* index of the range loop of export.go:263
    ci,               \* index of the range loop of export.go:267
    oldPod,           \* export.go:266
    targetLen,        \* export.go:252
    total,            \* export.go:253
    startTimestamp,   \* export.go:254
    endTimestamp,     \* export.go:255
    unreceivedNames,  \* export.go:256
    updated,          \* first result of the doUpdate call (export.go:182)
    err,              \* second result of the doUpdate call (export.go:182)
    wrote,            \* the gauges the current doUpdate call has Set (export.go:301, 304)
    gateHist,         \* per deployment, the latest shouldUpdate call (export.go:178): the
                      \* pods passed, whether the pod listing had failed, the Tracked Pod
                      \* Set at the time of the call ({} when there was none), the value
                      \* returned, and whether the call before it had the same pods,
                      \* Tracked Pod Set and return value
    hs,               \* position of the goroutine of handleSignals (signals.go:17)
    done,             \* signals.go:16   the channel done: values buffered, closed or not
    srv,              \* position of the goroutine of export.go:111
    main,             \* position of the Action of exportCmd, from export.go:116 on
    inf,              \* the informer factory started with done (export.go:159)
    bare,             \* the shared maps that a step has read or written while it did
                      \* not hold mu
    interleaved       \* a new record was stored after the first and before the last
                      \* lookup of the running doUpdate call

storeVars == <<world, allInfo, resp>>
metricVars == <<avgGauge, scaleGauge>>
loopVars == <<pc, deployments, di, pods>>
localVars == <<lastPodNames, pi, ci, oldPod, targetLen, total, startTimestamp,
               endTimestamp, unreceivedNames, updated, err, wrote>>
haltVars == <<hs, done, srv, main, inf>>
obsVars == <<bare, interleaved>>
vars == <<world, allInfo, updatedDeploy, avgGauge, scaleGauge, resp, pc, deployments,
          di, pods, lastPodNames, pi, ci, oldPod, targetLen, total, startTimestamp,
          endTimestamp, unreceivedNames, updated, err, wrote, gateHist, hs, done, srv,
          main, inf, bare, interleaved>>

(***************************************************************************)
(* Program constants                                                       *)
(***************************************************************************)
containerNamePrefix == <<"c","o","n","t","a","i","n","e","r","d",":","/","/">>
defaultContainerdK8sNamespace == "k8s.io"
maxContainerNameLength == 10
\* math.MaxInt64, the initial startTimestamp; TLC integers are 32 bits wide, so the
\* model's timestamps live in 0 .. MaxInt64 with MaxInt64 the top of that range
MaxInt64 == 2147483647
StatusOK == 200
StatusBadRequest == 400

(***************************************************************************)
(* strings package                                                         *)
(***************************************************************************)
HasPrefix(s, prefix) ==
    /\ Len(s) >= Len(prefix)
    /\ SubSeq(s, 1, Len(prefix)) = prefix

TrimPrefix(s, prefix) ==
    IF HasPrefix(s, prefix) THEN SubSeq(s, Len(prefix) + 1, Len(s)) ELSE s

RECURSIVE TrimLeft(_, _)
TrimLeft(s, cutset) ==
    IF s # <<>> /\ Head(s) \in cutset THEN TrimLeft(Tail(s), cutset) ELSE s

RECURSIVE TrimRight(_, _)
TrimRight(s, cutset) ==
    IF s # <<>> /\ s[Len(s)] \in cutset
    THEN TrimRight(SubSeq(s, 1, Len(s) - 1), cutset)
    ELSE s

\* strings.Trim(s, cutset): the cutset is the set of its characters
Trim(s, cutset) == TrimRight(TrimLeft(s, cutset), cutset)

\* strings.Split(s, sep) for a separator of one character
RECURSIVE Split(_, _)
Split(s, sep) ==
    IF \A i \in 1..Len(s) : s[i] # sep THEN <<s>>
    ELSE LET k == CHOOSE i \in 1..Len(s) : s[i] = sep /\ \A j \in 1..(i - 1) : s[j] # sep
         IN  <<SubSeq(s, 1, k - 1)>> \o Split(SubSeq(s, k + 1, Len(s)), sep)

(***************************************************************************)
(* strconv package                                                         *)
(***************************************************************************)
Digits == <<"0", "1", "2", "3", "4", "5", "6", "7", "8", "9">>

DigitValue(c) == (CHOOSE i \in 1..Len(Digits) : Digits[i] = c) - 1

RECURSIVE Decimal(_)
Decimal(s) ==
    IF s = <<>> THEN 0
    ELSE 10 * Decimal(SubSeq(s, 1, Len(s) - 1)) + DigitValue(s[Len(s)])

\* strconv.Atoi: an optional sign and at least one decimal digit, nothing else
Atoi(s) ==
    LET body == IF s # <<>> /\ Head(s) \in {"+", "-"} THEN Tail(s) ELSE s
    IN  IF body = <<>> \/ \E i \in 1..Len(body) : \A d \in 1..Len(Digits) : body[i] # Digits[d]
        THEN [ok |-> FALSE, value |-> 0]
        ELSE [ok |-> TRUE,
              value |-> IF Head(s) = "-" THEN 0 - Decimal(body) ELSE Decimal(body)]

containerShortName(name) ==
    IF Len(name) > maxContainerNameLength
    THEN SubSeq(name, 1, maxContainerNameLength)
    ELSE name

(***************************************************************************)
(* Types                                                                   *)
(***************************************************************************)
meta(name, namespace) == [name |-> name, namespace |-> namespace]

containerStartupInfo(name, namespace, start, end) ==
    [Name |-> name, Namespace |-> namespace, Start |-> start, End |-> end]

\* corev1.ContainerStatus: the fields the code reads
ContainerStatus(name, id) == [Name |-> name, ContainerID |-> id]

\* corev1.Pod: Name, Spec.Containers (their names), Status.ContainerStatuses
Pod(name, containers, statuses) ==
    [Name |-> name, Containers |-> containers, ContainerStatuses |-> statuses]

\* appsv1.Deployment: Name, Namespace, whether Spec.Selector is non-nil
Deployment(name, namespace, selector) ==
    [Name |-> name, Namespace |-> namespace, Selector |-> selector]

\* net/http request as the handler reads it: the method, and the body, which either
\* decodes into a containerStartupInfo (Valid) or does not
Request(method, valid, info) == [Method |-> method, Valid |-> valid, Info |-> info]

Response(code, new) == [code |-> code, new |-> new]

(***************************************************************************)
(* Inputs: what the cluster and the collectors can present                 *)
(***************************************************************************)
CID(name) == containerNamePrefix \o name

P1 == Pod("p1", <<"app">>, <<ContainerStatus("app", CID(<<"a">>))>>)
P2 == Pod("p2", <<"app">>, <<ContainerStatus("app", CID(<<"b">>))>>)
P3 == Pod("p3", <<"app">>, <<ContainerStatus("app", CID(<<"c">>))>>)
\* two containers in the spec, one container status
Q1 == Pod("q1", <<"app", "sidecar">>, <<ContainerStatus("app", CID(<<"e">>))>>)
\* a container that is not run by containerd
Q2 == Pod("q2", <<"app">>, <<ContainerStatus("app", <<"d",":","/","/","x">>)>>)
Q3 == Pod("q3", <<"app", "sidecar">>,
          <<ContainerStatus("app", CID(<<"e">>)),
            ContainerStatus("sidecar", <<"d",":","/","/","x">>)>>)
\* a container that has no ID yet, and a pod that has no container status yet
Q4 == Pod("q4", <<"app">>, <<ContainerStatus("app", <<" ", " ">>)>>)
Q5 == Pod("q5", <<"app">>, <<>>)
\* a container whose ID is white space that is not a space
Q6 == Pod("q6", <<"app">>, <<ContainerStatus("app", <<"\t">>)>>)

D1 == Deployment("d1", "default", TRUE)
D2 == Deployment("d2", "default", TRUE)
D3 == Deployment("d3", "default", FALSE)

\* The clusters: in "scale" deployment d1 is scaled up and down and d2 runs outside
\* containerd; in "faults" d1 gains a pod that runs outside containerd and the pods
\* of d2 are unsettled, partly foreign, or report fewer container statuses than they
\* have containers, and the pod lister can fail; in "steady" d1 keeps the pods p1
\* and p2, d2 runs outside containerd or reports a tab as container ID, and the
\* exporter is sent a termination signal.
Worlds == {"scale", "faults", "steady"}

\* results of deploymentLister.List
DeployLists == { <<D1, D2>>, <<D2, D3, D1>> }

\* results of podLister.Pods(d.Namespace).List(selector of d)
PodLists(d) ==
    IF world = "scale" THEN
        IF d.Name = "d1"
        THEN { <<>>, <<P1, P2>>, <<P1, P2, P3>>, <<P1, P3>> }
        ELSE { <<Q2>> }
    ELSE IF world = "faults" THEN
        IF d.Name = "d1"
        THEN { <<P1>>, <<Q2, P1>>, <<P1, Q2>> }
        ELSE { <<Q1>>, <<Q3>>, <<Q1, Q4>>, <<Q5>> }
    ELSE
        IF d.Name = "d1"
        THEN { <<P1, P2>> }
        ELSE { <<Q2>>, <<Q6>> }

\* the outcome of a pod listing: the pods and whether an error was returned
Listing(ps, failed) == [pods |-> ps, failed |-> failed]

\* podLister.Pods(ns).List returns, next to an error, the pods it had appended
\* before the error: a proper prefix of the pods that match
PodListings(d) ==
    { Listing(ps, FALSE) : ps \in PodLists(d) }
        \cup IF world # "faults" THEN {}
             ELSE UNION { { Listing(SubSeq(ps, 1, k), TRUE) : k \in 0..(Len(ps) - 1) } :
                          ps \in PodLists(d) }

(***************************************************************************)
(* The collector (collect.go).  The tree under defaultContainerdRoot of a  *)
(* node is a function from the namespace directories to the sequences of   *)
(* their container directories.                                            *)
(***************************************************************************)
\* a container directory, and the content of its "startup" file when it has one
Entry(name, exists, content) == [Name |-> name, Exists |-> exists, Content |-> content]

\* the file as the runtime shim writes it: the start time, and the end time, which
\* is 0 while the container has not finished starting
StartupFile(start, end) == start \o <<"\n">> \o end \o <<"\n">>

\* collect.go:105-129: the start and end time read from the directory of a container
readStartup(dir) ==
    IF ~dir.Exists THEN [ok |-> FALSE, start |-> 0, end |-> 0]
    ELSE LET content == Trim(dir.Content, {" ", "\t", "\n"})
             lines == Split(content, "\n")
         IN  IF Len(lines) < 2 THEN [ok |-> FALSE, start |-> 0, end |-> 0]
             ELSE IF ~Atoi(lines[1]).ok THEN [ok |-> FALSE, start |-> 0, end |-> 0]
             ELSE IF ~Atoi(lines[2]).ok THEN [ok |-> FALSE, start |-> 0, end |-> 0]
             ELSE [ok |-> TRUE, start |-> Atoi(lines[1]).value, end |-> Atoi(lines[2]).value]

\* a collector that also reports the containers that have not finished starting
collectUnfinished(namespace, root) ==
    IF namespace \notin DOMAIN root THEN <<>>
    ELSE LET Readable(dir) == readStartup(dir).ok
             dirs == SelectSeq(root[namespace], Readable)
         IN  [i \in 1..Len(dirs) |->
                 containerStartupInfo(dirs[i].Name, namespace,
                                      readStartup(dirs[i]).start, readStartup(dirs[i]).end)]

\* collect.go:97-141
collect(namespace, root) ==
    IF namespace \notin DOMAIN root THEN <<>>
    ELSE LET Finished(dir) == readStartup(dir).ok /\ readStartup(dir).end # 0
             dirs == SelectSeq(root[namespace], Finished)
         IN  [i \in 1..Len(dirs) |->
                 containerStartupInfo(dirs[i].Name, namespace,
                                      readStartup(dirs[i]).start, readStartup(dirs[i]).end)]

Range(s) == { s[i] : i \in 1..Len(s) }

\* collect.go:51-65: the records one collector pushes in one round, each in a POST
\* of its own
pushed(root) == UNION { Range(collect(ns, root)) : ns \in DOMAIN root }

T0 == <<"0">>
T10 == <<"1", "0">>
T30 == <<"3", "0">>
T100 == <<"1", "0", "0">>
T120 == <<"1", "2", "0">>
T150 == <<"1", "5", "0">>
T200 == <<"2", "0", "0">>
T260 == <<"2", "6", "0">>
T300 == <<"3", "0", "0">>
T400 == <<"4", "0", "0">>
T450 == <<"4", "5", "0">>

\* the trees the collectors of the cluster "scale" read: two nodes, of which the
\* second reports other times for b and c
ScaleRoots ==
    { [ns \in {"k8s.io"} |->
          << Entry(<<"a">>, TRUE, StartupFile(T100, T150)),
             Entry(<<"b">>, TRUE, StartupFile(T120, T300)),
             Entry(<<"c">>, TRUE, StartupFile(T400, T450)) >>],
      [ns \in {"k8s.io"} |->
          << Entry(<<"b">>, TRUE, StartupFile(T200, T260)),
             Entry(<<"c">>, TRUE, StartupFile(T450, T450)) >>] }

\* the cluster "faults": the container e runs in two containerd namespaces
FaultsRoots ==
    { [ns \in {"k8s.io", "moby"} |->
          IF ns = "k8s.io"
          THEN << Entry(<<"a">>, TRUE, StartupFile(T100, T150)),
                  Entry(<<"e">>, TRUE, StartupFile(T10, T30)) >>
          ELSE << Entry(<<"e">>, TRUE, StartupFile(T10, T30)) >>] }

\* the cluster "steady": one node, read while b is starting and again when b has
\* started; f has no startup file, g has one line, h has a start time that is not
\* a number
SteadyRoots ==
    { [ns \in {"k8s.io"} |->
          << Entry(<<"a">>, TRUE, StartupFile(T100, T150)),
             Entry(<<"b">>, TRUE, StartupFile(T120, T0)),
             Entry(<<"f">>, FALSE, <<>>),
             Entry(<<"g">>, TRUE, T100 \o <<"\n">>),
             Entry(<<"h">>, TRUE, StartupFile(<<"x">>, T150)) >>],
      [ns \in {"k8s.io"} |->
          << Entry(<<"a">>, TRUE, StartupFile(T100, T150)),
             Entry(<<"b">>, TRUE, StartupFile(T120, T300)) >>] }

ScaleInfos == UNION { pushed(root) : root \in ScaleRoots }
FaultsInfos == UNION { pushed(root) : root \in FaultsRoots }
SteadyInfos == UNION { pushed(root) : root \in SteadyRoots }

\* the records the collectors of the cluster push
Infos ==
    IF world = "scale" THEN ScaleInfos
    ELSE IF world = "faults" THEN FaultsInfos
    ELSE SteadyInfos

NoInfo == containerStartupInfo(<<>>, "", 0, 0)

Requests ==
    { Request("POST", TRUE, i) : i \in Infos }
        \cup { Request("GET", TRUE, NoInfo), Request("POST", FALSE, NoInfo) }

(***************************************************************************)
(* Gauge values.  A float64 quotient is kept as the fraction in lowest     *)
(* terms, so that 110/2 and 55/1 are the same value.                       *)
(***************************************************************************)
Abs(x) == IF x < 0 THEN -x ELSE x

RECURSIVE GCD(_, _)
GCD(a, b) == IF b = 0 THEN a ELSE GCD(b, a % b)

Float(x) == [num |-> x, den |-> 1]

\* x / y for y > 0
Quot(x, y) ==
    LET g == GCD(Abs(x), y)
    IN  [num |-> x \div g, den |-> y \div g]

Put(map, key, value) == [k \in DOMAIN map \cup {key} |-> IF k = key THEN value ELSE map[k]]

(***************************************************************************)
(* The record of one shouldUpdate call                                     *)
(***************************************************************************)
Call(ps, failed, last, ret, again) ==
    [called |-> TRUE, pods |-> ps, failed |-> failed, last |-> last, ret |-> ret,
     again |-> again]

NoCall ==
    [called |-> FALSE, pods |-> <<>>, failed |-> FALSE, last |-> {}, ret |-> FALSE,
     again |-> FALSE]

\* the Tracked Pod Set of m as a set of at most one element
Tracked(m) == IF m \in DOMAIN updatedDeploy THEN {updatedDeploy[m]} ELSE {}

(***************************************************************************)
(* The gate                                                                *)
(***************************************************************************)
getPodNames(ps) == { ps[i].Name : i \in 1..Len(ps) }

\* a comparison of the sizes alone
equalBySize(a, b) == Cardinality(a) = Cardinality(b)

equal(a, b) ==
    /\ Cardinality(a) = Cardinality(b)
    /\ \A k \in a : k \in b

\* a gate that reports the pod sets that did not change
shouldUpdateWhenEqual(m, currentPods) ==
    IF Len(currentPods) = 0 THEN FALSE
    ELSE IF \E i \in 1..Len(currentPods) :
               \/ Len(currentPods[i].ContainerStatuses) = 0
               \/ \E j \in 1..Len(currentPods[i].ContainerStatuses) :
                      Trim(currentPods[i].ContainerStatuses[j].ContainerID, {" "}) = <<>>
         THEN FALSE
    ELSE IF m \notin DOMAIN updatedDeploy THEN TRUE
    ELSE equal(updatedDeploy[m], getPodNames(currentPods))

\* a gate without the test for an empty pod list
shouldUpdateOfEmpty(m, currentPods) ==
    IF \E i \in 1..Len(currentPods) :
           \/ Len(currentPods[i].ContainerStatuses) = 0
           \/ \E j \in 1..Len(currentPods[i].ContainerStatuses) :
                  Trim(currentPods[i].ContainerStatuses[j].ContainerID, {" "}) = <<>>
    THEN FALSE
    ELSE IF m \notin DOMAIN updatedDeploy THEN TRUE
    ELSE ~equal(updatedDeploy[m], getPodNames(currentPods))

shouldUpdate(m, currentPods) ==
    IF Len(currentPods) = 0 THEN FALSE
    ELSE IF \E i \in 1..Len(currentPods) :
               \/ Len(currentPods[i].ContainerStatuses) = 0
               \/ \E j \in 1..Len(currentPods[i].ContainerStatuses) :
                      Trim(currentPods[i].ContainerStatuses[j].ContainerID, {" "}) = <<>>
         THEN FALSE
    ELSE IF m \notin DOMAIN updatedDeploy THEN TRUE
    ELSE ~equal(updatedDeploy[m], getPodNames(currentPods))

\* export.go:213-230: the call gets as far as the read of updatedDeploy
ReachesTracker(currentPods) ==
    /\ Len(currentPods) # 0
    /\ \A i \in 1..Len(currentPods) :
           /\ Len(currentPods[i].ContainerStatuses) # 0
           /\ \A j \in 1..Len(currentPods[i].ContainerStatuses) :
                  Trim(currentPods[i].ContainerStatuses[j].ContainerID, {" "}) # <<>>

(***************************************************************************)
(* Initial state: empty maps, no gauge has a value, the scheduler is at    *)
(* the top of its first cycle.                                             *)
(***************************************************************************)
NoResponse == Response(0, FALSE)

\* a channel of struct{}: the number of values in its buffer, and whether it is closed
Chan(buf, closed) == [buf |-> buf, closed |-> closed]

Init ==
    /\ world \in Worlds
    /\ allInfo = << >>
    /\ updatedDeploy = << >>
    /\ avgGauge = << >>
    /\ scaleGauge = << >>
    /\ resp = NoResponse
    /\ pc = "list"
    /\ deployments = <<>>
    /\ di = 0
    /\ pods = <<>>
    /\ lastPodNames = {}
    /\ pi = 0
    /\ ci = 0
    /\ oldPod = FALSE
    /\ targetLen = 0
    /\ total = 0
    /\ startTimestamp = MaxInt64
    /\ endTimestamp = 0
    /\ unreceivedNames = <<>>
    /\ updated = FALSE
    /\ err = FALSE
    /\ wrote = {}
    /\ gateHist = [d \in {meta(D1.Name, D1.Namespace), meta(D2.Name, D2.Namespace)} |-> NoCall]
    /\ hs = "recv"
    /\ done = Chan(0, FALSE)
    /\ srv = "wait"
    /\ main = "serve"
    /\ inf = "run"
    /\ bare = {}
    /\ interleaved = FALSE

(***************************************************************************)
(* The push endpoint.  The handler runs while the server of export.go:104  *)
(* serves; from mu.Lock to the deferred mu.Unlock it is one step.          *)
(***************************************************************************)
Serving == main = "serve"

\* the running doUpdate call has made a lookup and has another one to make
BetweenLookups ==
    /\ \/ pc = "status"
       \/ pc = "pod" /\ pi <= Len(pods)
    /\ pi > 1 \/ ci > 1

\* a handler that stores every decodable record, also over an existing one
receiveStartupInfoOverwrite(r) ==
    /\ Serving
    /\ IF r.Method # "POST" \/ ~r.Valid THEN
           /\ resp' = Response(StatusBadRequest, FALSE)
           /\ UNCHANGED allInfo
       ELSE
           /\ allInfo' = Put(allInfo, meta(r.Info.Name, r.Info.Namespace), r.Info)
           /\ resp' = Response(StatusOK, TRUE)
    /\ interleaved' = (interleaved \/ (allInfo' # allInfo /\ BetweenLookups))
    /\ UNCHANGED <<world, updatedDeploy, metricVars, loopVars, localVars, gateHist,
                   haltVars, bare>>

receiveStartupInfo(r) ==
    /\ Serving
    /\ IF r.Method # "POST" THEN
           /\ resp' = Response(StatusBadRequest, FALSE)
           /\ UNCHANGED allInfo
       ELSE IF ~r.Valid THEN
           /\ resp' = Response(StatusBadRequest, FALSE)
           /\ UNCHANGED allInfo
       ELSE
           LET info == r.Info
               m == meta(info.Name, info.Namespace)
           IN  IF m \notin DOMAIN allInfo THEN
                   /\ allInfo' = Put(allInfo, m, info)
                   /\ resp' = Response(StatusOK, TRUE)
               ELSE
                   /\ resp' = Response(StatusOK, FALSE)
                   /\ UNCHANGED allInfo
    /\ interleaved' = (interleaved \/ (allInfo' # allInfo /\ BetweenLookups))
    /\ UNCHANGED <<world, updatedDeploy, metricVars, loopVars, localVars, gateHist,
                   haltVars, bare>>

Push == \E r \in Requests : receiveStartupInfo(r)

(***************************************************************************)
(* The scheduler loop.  Its goroutine, like every other, runs until the    *)
(* Action of exportCmd returns and the process ends.                       *)
(***************************************************************************)
Running == main # "returned"

At(l) == Running /\ pc = l

ResetLocals ==
    /\ lastPodNames' = {}
    /\ pi' = 0
    /\ ci' = 0
    /\ oldPod' = FALSE
    /\ targetLen' = 0
    /\ total' = 0
    /\ startTimestamp' = MaxInt64
    /\ endTimestamp' = 0
    /\ unreceivedNames' = <<>>
    /\ updated' = FALSE
    /\ err' = FALSE
    /\ wrote' = {}

\* export.go:163-166: list the deployments; on an error no deployment is visited
ListDeployments ==
    /\ At("list")
    /\ \/ /\ \E ds \in DeployLists : deployments' = ds
          /\ di' = 1
          /\ pc' = "deploy"
       \/ /\ deployments' = <<>>
          /\ di' = 0
          /\ pc' = "wait"
    /\ UNCHANGED <<storeVars, haltVars, obsVars, updatedDeploy, metricVars, pods, localVars, gateHist>>

\* export.go:167: the range loop is exhausted
EndOfDeployments ==
    /\ At("deploy")
    /\ di > Len(deployments)
    /\ pc' = "wait"
    /\ UNCHANGED <<storeVars, haltVars, obsVars, updatedDeploy, metricVars, deployments, di, pods,
                   localVars, gateHist>>

\* a loop that is left at a deployment without selector
SkipDeploymentBreaks ==
    /\ At("deploy")
    /\ di <= Len(deployments)
    /\ ~deployments[di].Selector
    /\ pc' = "wait"
    /\ UNCHANGED <<storeVars, haltVars, obsVars, updatedDeploy, metricVars, deployments,
                   di, pods, localVars, gateHist>>

\* export.go:170-173: a deployment without selector is skipped
SkipDeployment ==
    /\ At("deploy")
    /\ di <= Len(deployments)
    /\ ~deployments[di].Selector
    /\ di' = di + 1
    /\ UNCHANGED <<storeVars, haltVars, obsVars, updatedDeploy, metricVars, pc, deployments, pods,
                   localVars, gateHist>>

\* export.go:174-181 and the prologue of doUpdate, export.go:251-262.
\* l is what podLister returned.  updatedDeploy is read at export.go:231 and 260
\* without mu.
VisitDeployment ==
    /\ At("deploy")
    /\ di <= Len(deployments)
    /\ deployments[di].Selector
    /\ LET d == deployments[di]
           m == meta(d.Name, d.Namespace)
       IN  \E l \in PodListings(d) : LET ps == l.pods IN
               /\ gateHist' = [gateHist EXCEPT ![m] =
                      Call(ps, l.failed, Tracked(m), shouldUpdate(m, ps),
                           /\ @.called
                           /\ @.pods = ps
                           /\ @.last = Tracked(m)
                           /\ @.ret = shouldUpdate(m, ps))]
               /\ bare' = IF ReachesTracker(ps) THEN bare \cup {"updatedDeploy"} ELSE bare
               /\ IF ~shouldUpdate(m, ps) THEN
                      /\ di' = di + 1
                      /\ UNCHANGED <<pc, pods, localVars>>
                  ELSE
                      /\ pods' = ps
                      /\ lastPodNames' = IF m \in DOMAIN updatedDeploy THEN updatedDeploy[m] ELSE {}
                      /\ pi' = 1
                      /\ pc' = "pod"
                      /\ UNCHANGED <<di, ci, oldPod, targetLen, total, startTimestamp,
                                     endTimestamp, unreceivedNames, updated, err, wrote>>
    /\ UNCHANGED <<storeVars, haltVars, interleaved, updatedDeploy, metricVars, deployments>>

\* export.go:263-266: the next pod of the range loop, or the end of the loop
EnterPod ==
    /\ At("pod")
    /\ IF pi > Len(pods) THEN
           /\ pc' = "check"
           /\ UNCHANGED <<pi, ci, oldPod, targetLen>>
       ELSE
           /\ targetLen' = targetLen + Len(pods[pi].Containers)
           /\ oldPod' = (pods[pi].Name \in lastPodNames)
           /\ IF Len(pods[pi].ContainerStatuses) = 0
              THEN pi' = pi + 1 /\ UNCHANGED <<pc, ci>>
              ELSE ci' = 1 /\ pc' = "status" /\ UNCHANGED pi
    /\ UNCHANGED <<storeVars, haltVars, obsVars, updatedDeploy, metricVars, deployments, di, pods,
                   lastPodNames, total, startTimestamp, endTimestamp, unreceivedNames,
                   updated, err, wrote, gateHist>>

\* a lookup that widens the window with the records of old pods too
LookupWindowOfAllPods(name) ==
    LET key == meta(name, defaultContainerdK8sNamespace)
    IN  IF key \in DOMAIN allInfo THEN
            LET info == allInfo[key]
            IN  /\ startTimestamp' = IF info.Start < startTimestamp THEN info.Start ELSE startTimestamp
                /\ endTimestamp' = IF info.End > endTimestamp THEN info.End ELSE endTimestamp
                /\ total' = total + (info.End - info.Start)
                /\ UNCHANGED unreceivedNames
        ELSE
            /\ unreceivedNames' = Append(unreceivedNames, containerShortName(name))
            /\ UNCHANGED <<startTimestamp, endTimestamp, total>>

\* a lookup that adds only the latencies of new pods to the total
LookupTotalOfNewPods(name) ==
    LET key == meta(name, defaultContainerdK8sNamespace)
    IN  IF key \in DOMAIN allInfo THEN
            LET info == allInfo[key]
            IN  /\ startTimestamp' =
                       IF ~oldPod /\ info.Start < startTimestamp THEN info.Start
                       ELSE startTimestamp
                /\ endTimestamp' =
                       IF ~oldPod /\ info.End > endTimestamp THEN info.End
                       ELSE endTimestamp
                /\ total' = IF ~oldPod THEN total + (info.End - info.Start) ELSE total
                /\ UNCHANGED unreceivedNames
        ELSE
            /\ unreceivedNames' = Append(unreceivedNames, containerShortName(name))
            /\ UNCHANGED <<startTimestamp, endTimestamp, total>>

\* export.go:273-287: the lookup of one container, under mu
Lookup(name) ==
    LET key == meta(name, defaultContainerdK8sNamespace)
    IN  IF key \in DOMAIN allInfo THEN
            LET info == allInfo[key]
            IN  /\ startTimestamp' =
                       IF ~oldPod /\ info.Start < startTimestamp THEN info.Start
                       ELSE startTimestamp
                /\ endTimestamp' =
                       IF ~oldPod /\ info.End > endTimestamp THEN info.End
                       ELSE endTimestamp
                /\ total' = total + (info.End - info.Start)
                /\ UNCHANGED unreceivedNames
        ELSE
            /\ unreceivedNames' = Append(unreceivedNames, containerShortName(name))
            /\ UNCHANGED <<startTimestamp, endTimestamp, total>>

\* a loop that counts a container without the prefix as unreceived and goes on
StatusToleratesForeign ==
    /\ At("status")
    /\ LET c == pods[pi].ContainerStatuses[ci]
       IN  /\ IF HasPrefix(c.ContainerID, containerNamePrefix)
              THEN Lookup(TrimPrefix(c.ContainerID, containerNamePrefix))
              ELSE /\ unreceivedNames' = Append(unreceivedNames, containerShortName(c.ContainerID))
                   /\ UNCHANGED <<startTimestamp, endTimestamp, total>>
           /\ IF ci < Len(pods[pi].ContainerStatuses)
              THEN ci' = ci + 1 /\ UNCHANGED <<pi, pc>>
              ELSE pi' = pi + 1 /\ pc' = "pod" /\ UNCHANGED ci
           /\ UNCHANGED <<updated, err>>
    /\ UNCHANGED <<storeVars, haltVars, obsVars, updatedDeploy, metricVars, deployments, di, pods,
                   lastPodNames, oldPod, targetLen, wrote, gateHist>>

\* export.go:267-288: one container status of the current pod
Status ==
    /\ At("status")
    /\ LET c == pods[pi].ContainerStatuses[ci]
       IN  IF HasPrefix(c.ContainerID, containerNamePrefix) THEN
               /\ Lookup(TrimPrefix(c.ContainerID, containerNamePrefix))
               /\ IF ci < Len(pods[pi].ContainerStatuses)
                  THEN ci' = ci + 1 /\ UNCHANGED <<pi, pc>>
                  ELSE pi' = pi + 1 /\ pc' = "pod" /\ UNCHANGED ci
               /\ UNCHANGED <<updated, err>>
           ELSE
               /\ updated' = FALSE
               /\ err' = TRUE
               /\ pc' = "ret"
               /\ UNCHANGED <<pi, ci, startTimestamp, endTimestamp, total, unreceivedNames>>
    /\ UNCHANGED <<storeVars, haltVars, obsVars, updatedDeploy, metricVars, deployments, di, pods,
                   lastPodNames, oldPod, targetLen, wrote, gateHist>>

\* a check that publishes as soon as one container was received
CheckPublishesPartial ==
    /\ At("check")
    /\ LET d == deployments[di]
           labels == meta(d.Name, d.Namespace)
           receivedLen == targetLen - Len(unreceivedNames)
       IN  IF receivedLen = 0 THEN
               /\ updated' = FALSE
               /\ UNCHANGED <<metricVars, wrote>>
           ELSE
               /\ avgGauge' = Put(avgGauge, labels, Quot(total, receivedLen))
               /\ IF endTimestamp > startTimestamp THEN
                      /\ scaleGauge' = Put(scaleGauge, labels, Float(endTimestamp - startTimestamp))
                      /\ wrote' = {"avg", "scale"}
                  ELSE
                      /\ wrote' = {"avg"}
                      /\ UNCHANGED scaleGauge
               /\ updated' = TRUE
    /\ err' = FALSE
    /\ pc' = "ret"
    /\ UNCHANGED <<storeVars, haltVars, obsVars, updatedDeploy, deployments, di, pods, lastPodNames,
                   pi, ci, oldPod, targetLen, total, startTimestamp, endTimestamp,
                   unreceivedNames, gateHist>>

\* a check that sets the scale-latency gauge whenever the window is not negative
CheckSetsEmptyWindow ==
    /\ At("check")
    /\ LET d == deployments[di]
           labels == meta(d.Name, d.Namespace)
           receivedLen == targetLen - Len(unreceivedNames)
       IN  IF receivedLen = 0 \/ receivedLen # targetLen THEN
               /\ updated' = FALSE
               /\ UNCHANGED <<metricVars, wrote>>
           ELSE
               /\ avgGauge' = Put(avgGauge, labels, Quot(total, receivedLen))
               /\ IF endTimestamp >= startTimestamp THEN
                      /\ scaleGauge' = Put(scaleGauge, labels, Float(endTimestamp - startTimestamp))
                      /\ wrote' = {"avg", "scale"}
                  ELSE
                      /\ wrote' = {"avg"}
                      /\ UNCHANGED scaleGauge
               /\ updated' = TRUE
    /\ err' = FALSE
    /\ pc' = "ret"
    /\ UNCHANGED <<storeVars, haltVars, obsVars, updatedDeploy, deployments, di, pods, lastPodNames,
                   pi, ci, oldPod, targetLen, total, startTimestamp, endTimestamp,
                   unreceivedNames, gateHist>>

\* export.go:291-306: the completeness check and the gauges
Check ==
    /\ At("check")
    /\ LET d == deployments[di]
           labels == meta(d.Name, d.Namespace)
           receivedLen == targetLen - Len(unreceivedNames)
       IN  IF receivedLen = 0 \/ receivedLen # targetLen THEN
               /\ updated' = FALSE
               /\ UNCHANGED <<metricVars, wrote>>
           ELSE
               /\ avgGauge' = Put(avgGauge, labels, Quot(total, receivedLen))
               /\ IF endTimestamp > startTimestamp THEN
                      /\ scaleGauge' = Put(scaleGauge, labels, Float(endTimestamp - startTimestamp))
                      /\ wrote' = {"avg", "scale"}
                  ELSE
                      /\ wrote' = {"avg"}
                      /\ UNCHANGED scaleGauge
               /\ updated' = TRUE
    /\ err' = FALSE
    /\ pc' = "ret"
    /\ UNCHANGED <<storeVars, haltVars, obsVars, updatedDeploy, deployments, di, pods, lastPodNames,
                   pi, ci, oldPod, targetLen, total, startTimestamp, endTimestamp,
                   unreceivedNames, gateHist>>

\* a caller that does not record the pods of a successful scoring
ReturnForgets ==
    /\ At("ret")
    /\ di' = di + 1
    /\ pods' = <<>>
    /\ pc' = "deploy"
    /\ ResetLocals
    /\ interleaved' = FALSE
    /\ UNCHANGED <<storeVars, haltVars, updatedDeploy, metricVars, deployments, gateHist,
                   bare>>

\* a caller that records the pods whenever doUpdate returned no error
ReturnTracksUnscored ==
    /\ At("ret")
    /\ LET d == deployments[di]
           m == meta(d.Name, d.Namespace)
       IN  updatedDeploy' =
               IF ~err THEN Put(updatedDeploy, m, getPodNames(pods))
               ELSE updatedDeploy
    /\ di' = di + 1
    /\ pods' = <<>>
    /\ pc' = "deploy"
    /\ ResetLocals
    /\ bare' = IF ~err /\ updated THEN bare \cup {"updatedDeploy"} ELSE bare
    /\ interleaved' = FALSE
    /\ UNCHANGED <<storeVars, haltVars, metricVars, deployments, gateHist>>

\* export.go:182-187: the caller of doUpdate; updatedDeploy is written without mu
Return ==
    /\ At("ret")
    /\ LET d == deployments[di]
           m == meta(d.Name, d.Namespace)
       IN  updatedDeploy' =
               IF ~err /\ updated THEN Put(updatedDeploy, m, getPodNames(pods))
               ELSE updatedDeploy
    /\ di' = di + 1
    /\ pods' = <<>>
    /\ pc' = "deploy"
    /\ ResetLocals
    /\ bare' = IF ~err /\ updated THEN bare \cup {"updatedDeploy"} ELSE bare
    /\ interleaved' = FALSE
    /\ UNCHANGED <<storeVars, haltVars, metricVars, deployments, gateHist>>

\* export.go:191-195: the ticker fires
Tick ==
    /\ At("wait")
    /\ pc' = "list"
    /\ deployments' = <<>>
    /\ di' = 0
    /\ UNCHANGED <<storeVars, haltVars, obsVars, updatedDeploy, metricVars, pods, localVars, gateHist>>

(***************************************************************************)
(* Shutdown: handleSignals, the channel done and those that wait for it    *)
(***************************************************************************)
\* a receive from done does not block: a value is buffered, or done is closed
CanReceive == done.buf > 0 \/ done.closed

\* the channel after a receive: a buffered value is taken
Received == Chan(IF done.buf > 0 THEN done.buf - 1 ELSE 0, done.closed)

\* signals.go:18: a termination signal is delivered and taken from signals
handleSignalsReceive ==
    /\ Running
    /\ world = "steady"
    /\ hs = "recv"
    /\ hs' = "send"
    /\ UNCHANGED <<storeVars, updatedDeploy, metricVars, loopVars, localVars, gateHist,
                   done, srv, main, inf, obsVars>>

\* signals.go:20: done has room for one value
handleSignalsSend ==
    /\ Running
    /\ hs = "send"
    /\ done.buf = 0
    /\ ~done.closed
    /\ done' = Chan(1, FALSE)
    /\ hs' = "close"
    /\ UNCHANGED <<storeVars, updatedDeploy, metricVars, loopVars, localVars, gateHist,
                   srv, main, inf, obsVars>>

\* signals.go:21
handleSignalsClose ==
    /\ Running
    /\ hs = "close"
    /\ ~done.closed
    /\ done' = Chan(done.buf, TRUE)
    /\ hs' = "end"
    /\ UNCHANGED <<storeVars, updatedDeploy, metricVars, loopVars, localVars, gateHist,
                   srv, main, inf, obsVars>>

\* export.go:191-198: the select takes the case of done, and the loop is left
Stop ==
    /\ At("wait")
    /\ CanReceive
    /\ done' = Received
    /\ pc' = "stopped"
    /\ UNCHANGED <<storeVars, updatedDeploy, metricVars, deployments, di, pods, localVars,
                   gateHist, hs, srv, main, inf, obsVars>>

\* export.go:159: the informers started by the factory stop when they receive from
\* the channel they were started with
informerStop ==
    /\ Running
    /\ inf = "run"
    /\ CanReceive
    /\ done' = Received
    /\ inf' = "stopped"
    /\ UNCHANGED <<storeVars, updatedDeploy, metricVars, loopVars, localVars, gateHist,
                   hs, srv, main, obsVars>>

\* export.go:112
serverReceiveDone ==
    /\ Running
    /\ srv = "wait"
    /\ CanReceive
    /\ done' = Received
    /\ srv' = "shutdown"
    /\ UNCHANGED <<storeVars, updatedDeploy, metricVars, loopVars, localVars, gateHist,
                   hs, main, inf, obsVars>>

\* export.go:113, and export.go:116-119: ListenAndServe returns ErrServerClosed
\* and the Action waits for exit
serverShutdown ==
    /\ Running
    /\ srv = "shutdown"
    /\ srv' = "close"
    /\ main' = "exit"
    /\ UNCHANGED <<storeVars, updatedDeploy, metricVars, loopVars, localVars, gateHist,
                   hs, done, inf, obsVars>>

\* export.go:114
serverCloseExit ==
    /\ Running
    /\ srv = "close"
    /\ srv' = "end"
    /\ UNCHANGED <<storeVars, updatedDeploy, metricVars, loopVars, localVars, gateHist,
                   hs, done, main, inf, obsVars>>

\* export.go:119-121: exit is closed, the Action returns and the process ends
exportReturn ==
    /\ main = "exit"
    /\ srv = "end"
    /\ main' = "returned"
    /\ UNCHANGED <<storeVars, updatedDeploy, metricVars, loopVars, localVars, gateHist,
                   hs, done, srv, inf, obsVars>>

Next ==
    \/ Push
    \/ ListDeployments
    \/ EndOfDeployments
    \/ SkipDeployment
    \/ VisitDeployment
    \/ EnterPod
    \/ Status
    \/ Check
    \/ Return
    \/ Tick
    \/ Stop
    \/ handleSignalsReceive
    \/ handleSignalsSend
    \/ handleSignalsClose
    \/ informerStop
    \/ serverReceiveDone
    \/ serverShutdown
    \/ serverCloseExit
    \/ exportReturn

Spec == Init /\ [][Next]_vars

(***************************************************************************)
(* Properties                                                              *)
(***************************************************************************)
InDoUpdate == pc \in {"pod", "status", "check", "ret"}

\* the key under which the request r is stored
KeyOf(r) == meta(r.Info.Name, r.Info.Namespace)

\* C1: once an identity has a record in allInfo, no step changes or removes that
\* record; a decodable POST for an identity that is already stored (with the same or
\* with another record) leaves the store as it is and is answered with 200.
IdempotentIngestion ==
    [][ /\ \A m \in DOMAIN allInfo : m \in DOMAIN allInfo' /\ allInfo'[m] = allInfo[m]
        /\ \A r \in Requests :
               (/\ r.Method = "POST"
                /\ r.Valid
                /\ KeyOf(r) \in DOMAIN allInfo
                /\ receiveStartupInfo(r))
               => (resp'.code = StatusOK /\ allInfo' = allInfo) ]_vars

\* a POST for the stored identity b was answered with 200 without a new record, the
\* first record (120, 300) is the one stored, and the scheduler has scored meanwhile
IdempotentIngestionWitness ==
    /\ resp = Response(StatusOK, FALSE)
    /\ meta(<<"b">>, "k8s.io") \in DOMAIN allInfo
    /\ allInfo[meta(<<"b">>, "k8s.io")].Start = 120
    /\ DOMAIN updatedDeploy # {}

(***************************************************************************)
(* What the claims speak of, computed from the pods and the Record Store   *)
(* and not from the locals of doUpdate                                     *)
(***************************************************************************)
\* the deployment doUpdate is running for
CurM == meta(deployments[di].Name, deployments[di].Namespace)

\* the Tracked Pod Set of the deployment, empty when it has none
TrackedSet(m) == IF m \in DOMAIN updatedDeploy THEN updatedDeploy[m] ELSE {}

\* the container statuses of the pods ps, as <<pod index, status index>>
StatusesOf(ps) ==
    UNION { { <<i, j>> : j \in 1..Len(ps[i].ContainerStatuses) } : i \in 1..Len(ps) }

IDOf(ps, x) == ps[x[1]].ContainerStatuses[x[2]].ContainerID

Foreign(id) == ~HasPrefix(id, containerNamePrefix)

StoreKey(id) == meta(TrimPrefix(id, containerNamePrefix), "k8s.io")

HasRecord(id) == ~Foreign(id) /\ StoreKey(id) \in DOMAIN allInfo

RecordOf(id) == allInfo[StoreKey(id)]

\* the statuses of the pods that are not in the Tracked Pod Set of m
NewStatusesOf(m, ps) == { x \in StatusesOf(ps) : ps[x[1]].Name \notin TrackedSet(m) }

RECURSIVE SumLatency(_, _)
SumLatency(ps, X) ==
    IF X = {} THEN 0
    ELSE LET x == CHOOSE y \in X : TRUE
         IN  (RecordOf(IDOf(ps, x)).End - RecordOf(IDOf(ps, x)).Start)
                 + SumLatency(ps, X \ {x})

RECURSIVE TargetCount(_)
TargetCount(ps) == IF ps = <<>> THEN 0 ELSE Len(Head(ps).Containers) + TargetCount(Tail(ps))

MaxEnd(ps, X) ==
    LET ends == { RecordOf(IDOf(ps, x)).End : x \in X }
    IN  CHOOSE e \in ends : \A f \in ends : f <= e

MinStart(ps, X) ==
    LET starts == { RecordOf(IDOf(ps, x)).Start : x \in X }
    IN  CHOOSE e \in starts : \A f \in starts : e <= f

Published == pc = "ret" /\ ~err /\ updated

\* C2: whenever doUpdate has written a gauge, every container in the spec of every
\* pod it was given has a container status whose record is in the Record Store, and
\* the divisor receivedLen is the number of records it accumulated.
PublishedOnlyWhenFullyReceived ==
    (pc = "ret" /\ wrote # {}) =>
        /\ \A i \in 1..Len(pods) : \A k \in 1..Len(pods[i].Containers) :
               \E j \in 1..Len(pods[i].ContainerStatuses) :
                   /\ pods[i].ContainerStatuses[j].Name = pods[i].Containers[k]
                   /\ HasRecord(pods[i].ContainerStatuses[j].ContainerID)
        /\ targetLen - Len(unreceivedNames)
               = Cardinality({ x \in StatusesOf(pods) : HasRecord(IDOf(pods, x)) })

\* C3: a doUpdate call that reaches the completeness check with receivedLen = 0 or
\* 0 < receivedLen < targetLen returns (false, nil) and sets no gauge.
CompletenessGating ==
    [][ (/\ pc = "check"
         /\ pc' = "ret"
         /\ \/ targetLen - Len(unreceivedNames) = 0
            \/ /\ 0 < targetLen - Len(unreceivedNames)
               /\ targetLen - Len(unreceivedNames) < targetLen)
        => (/\ ~updated'
            /\ ~err'
            /\ wrote' = {}
            /\ avgGauge' = avgGauge
            /\ scaleGauge' = scaleGauge) ]_vars

\* doUpdate has returned (false, nil) for the pods p1, p2 with one of two records
CompletenessGatingWitness ==
    /\ pc = "ret"
    /\ pods = <<P1, P2>>
    /\ targetLen = 2
    /\ Len(unreceivedNames) = 1
    /\ ~updated
    /\ ~err
    /\ wrote = {}

\* C4: the value a successful scoring writes to the scale-latency gauge is the
\* maximum End minus the minimum Start over the records of the containers of the
\* pods that are not in the Tracked Pod Set; with p1, p2 tracked after a first
\* scoring over (100,150), (120,300) and p3 new with (400,450) it is 50.
ScaleLatencyWindow ==
    (Published /\ "scale" \in wrote) =>
        /\ NewStatusesOf(CurM, pods) # {}
        /\ scaleGauge[CurM] =
               Float(MaxEnd(pods, NewStatusesOf(CurM, pods))
                         - MinStart(pods, NewStatusesOf(CurM, pods)))

ScaleLatencyWindowWitness ==
    /\ Published
    /\ pods = <<P1, P2, P3>>
    /\ TrackedSet(CurM) = {"p1", "p2"}
    /\ RecordOf(CID(<<"a">>)).Start = 100 /\ RecordOf(CID(<<"a">>)).End = 150
    /\ RecordOf(CID(<<"b">>)).Start = 120 /\ RecordOf(CID(<<"b">>)).End = 300
    /\ RecordOf(CID(<<"c">>)).Start = 400 /\ RecordOf(CID(<<"c">>)).End = 450
    /\ "scale" \in wrote
    /\ scaleGauge[CurM] = Float(50)

\* C5: the value a successful scoring writes to the average-latency gauge is the sum
\* of End - Start over the records of the container statuses of all pods, old and
\* new, divided by the number of containers in their specs.
AverageCorrectness ==
    (Published /\ "avg" \in wrote) =>
        /\ TargetCount(pods) > 0
        /\ avgGauge[CurM].num * TargetCount(pods)
               = SumLatency(pods, StatusesOf(pods)) * avgGauge[CurM].den
        /\ avgGauge[CurM].den > 0

\* the records (100,150) and (200,260) give 55, with p1 scored before
AverageCorrectnessWitness ==
    /\ Published
    /\ pods = <<P1, P2>>
    /\ "p1" \in TrackedSet(CurM)
    /\ RecordOf(CID(<<"a">>)).Start = 100 /\ RecordOf(CID(<<"a">>)).End = 150
    /\ RecordOf(CID(<<"b">>)).Start = 200 /\ RecordOf(CID(<<"b">>)).End = 260
    /\ avgGauge[CurM] = Float(55)

\* C6 as claimed: a successful scoring writes the scale-latency gauge if and only if
\* at least one of the pods is not in the Tracked Pod Set.
ScaleWrittenIffNewPod ==
    Published => ("scale" \in wrote <=> NewStatusesOf(CurM, pods) # {})

\* C6 as amended: a successful scoring writes the average-latency gauge; it writes
\* the scale-latency gauge if and only if at least one of the pods is not in the
\* Tracked Pod Set and the maximum End of the records of those pods is greater than
\* their minimum Start; otherwise the scale-latency gauge keeps its value.
ScaleWrittenIffWindow ==
    [][ (pc = "check" /\ pc' = "ret" /\ updated') =>
            LET new == NewStatusesOf(CurM, pods)
            IN  /\ "avg" \in wrote'
                /\ CurM \in DOMAIN avgGauge'
                /\ "scale" \in wrote' <=>
                       (new # {} /\ MaxEnd(pods, new) > MinStart(pods, new))
                /\ "scale" \notin wrote' => scaleGauge' = scaleGauge ]_vars

\* all pods are old (p3 was removed), the average was rewritten and the scale
\* latency of the earlier scoring is still there
ScaleWrittenIffWindowWitness ==
    /\ Published
    /\ pods = <<P1, P2>>
    /\ TrackedSet(CurM) = {"p1", "p2", "p3"}
    /\ wrote = {"avg"}
    /\ CurM \in DOMAIN scaleGauge

\* C7: while doUpdate runs for pods of which a container status has an ID without
\* the prefix "containerd://", no gauge is set and no Tracked Pod Set changes, and
\* the call ends with an error.
HasForeign(ps) == \E x \in StatusesOf(ps) : Foreign(IDOf(ps, x))

PrefixViolation ==
    [][ (InDoUpdate /\ HasForeign(pods)) =>
            /\ avgGauge' = avgGauge
            /\ scaleGauge' = scaleGauge
            /\ updatedDeploy' = updatedDeploy
            /\ wrote' = {}
            /\ pc' # "check"
            /\ pc' = "ret" => (err' /\ ~updated') ]_vars

\* the error was returned after the record of another container had been added up
PrefixViolationWitness ==
    /\ pc = "ret"
    /\ err
    /\ pods = <<Q3>>
    /\ total > 0
    /\ unreceivedNames = <<>>

(***************************************************************************)
(* The gate as the scheduler calls it                                      *)
(***************************************************************************)
\* this step is the visit of deployment m: the pod listing and the shouldUpdate call
Visited(m) ==
    /\ pc = "deploy"
    /\ di <= Len(deployments)
    /\ deployments[di].Selector
    /\ meta(deployments[di].Name, deployments[di].Namespace) = m
    /\ (di' = di + 1 \/ pc' = "pod")

\* every pod has container statuses and every container ID has a character that is
\* not a space
Settled(ps) ==
    \A i \in 1..Len(ps) :
        /\ Len(ps[i].ContainerStatuses) > 0
        /\ \A j \in 1..Len(ps[i].ContainerStatuses) :
               \E k \in 1..Len(ps[i].ContainerStatuses[j].ContainerID) :
                   ps[i].ContainerStatuses[j].ContainerID[k] # " "

\* C8 as claimed: for a deployment that has a Tracked Pod Set, a shouldUpdate call and
\* the next call for it with the same pods both return false.
GateStableWhenTracked ==
    [][ \A m \in DOMAIN gateHist :
            (/\ Visited(m)
             /\ gateHist[m].called
             /\ gateHist[m].last # {}
             /\ gateHist'[m].pods = gateHist[m].pods)
            => (~gateHist[m].ret /\ ~gateHist'[m].ret) ]_vars

\* C8 as amended: for a deployment whose Tracked Pod Set is the set of the names of
\* the live pods, a shouldUpdate call and the next call for it with the same pods
\* both return false.
GateStableWhenUnchanged ==
    [][ \A m \in DOMAIN gateHist :
            (/\ Visited(m)
             /\ gateHist[m].called
             /\ gateHist[m].last = {getPodNames(gateHist[m].pods)}
             /\ gateHist'[m].pods = gateHist[m].pods)
            => (~gateHist[m].ret /\ ~gateHist'[m].ret) ]_vars

\* two calls in a row with the pods p1, p2 that are the Tracked Pod Set returned false
GateStableWhenUnchangedWitness ==
    \E m \in DOMAIN gateHist :
        /\ gateHist[m].called
        /\ gateHist[m].again
        /\ gateHist[m].pods = <<P1, P2>>
        /\ gateHist[m].last = {{"p1", "p2"}}
        /\ ~gateHist[m].ret

\* C9 as claimed: for a deployment that has a Tracked Pod Set, shouldUpdate returns
\* true whenever the set of the names of the live pods differs from it.
GateDetectsChurn ==
    \A m \in DOMAIN gateHist :
        (/\ gateHist[m].called
         /\ gateHist[m].last # {}
         /\ gateHist[m].last # {getPodNames(gateHist[m].pods)})
        => gateHist[m].ret

\* C9 as amended: for a deployment that has a Tracked Pod Set, shouldUpdate returns
\* true whenever there is a live pod, every live pod has container statuses, no
\* container ID is blank, and the set of the names of the live pods differs from
\* the Tracked Pod Set (a name added, removed or replaced).
GateDetectsChurnOfSettledPods ==
    \A m \in DOMAIN gateHist :
        (/\ gateHist[m].called
         /\ gateHist[m].last # {}
         /\ gateHist[m].pods # <<>>
         /\ Settled(gateHist[m].pods)
         /\ gateHist[m].last # {getPodNames(gateHist[m].pods)})
        => gateHist[m].ret

\* p2 was replaced by p3: as many names as tracked, one of them different
GateDetectsChurnOfSettledPodsWitness ==
    \E m \in DOMAIN gateHist :
        /\ gateHist[m].called
        /\ gateHist[m].last = {{"p1", "p2"}}
        /\ gateHist[m].pods = <<P1, P3>>
        /\ gateHist[m].ret

\* C10: when the pod list of a deployment is empty, shouldUpdate returns false, the
\* scheduler goes on to the next deployment without calling doUpdate, no gauge is
\* set and no Tracked Pod Set changes; doUpdate never runs with an empty pod list.
EmptyPodSet ==
    [][ /\ InDoUpdate' => pods' # <<>>
        /\ \A m \in DOMAIN gateHist :
               (Visited(m) /\ gateHist'[m].pods = <<>>)
               => (/\ ~gateHist'[m].ret
                   /\ pc' = "deploy"
                   /\ di' = di + 1
                   /\ wrote' = {}
                   /\ avgGauge' = avgGauge
                   /\ scaleGauge' = scaleGauge
                   /\ updatedDeploy' = updatedDeploy) ]_vars

\* a deployment that was scored before was visited with no pods and passed over
EmptyPodSetWitness ==
    \E m \in DOMAIN gateHist :
        /\ gateHist[m].called
        /\ gateHist[m].pods = <<>>
        /\ ~gateHist[m].ret
        /\ gateHist[m].last # {}
        /\ m \in DOMAIN avgGauge
        /\ pc = "deploy"

(***************************************************************************)
(* The cycle                                                               *)
(***************************************************************************)
\* the locals of doUpdate have the values of export.go:251-259
FreshLocals ==
    /\ targetLen = 0
    /\ total = 0
    /\ startTimestamp = MaxInt64
    /\ endTimestamp = 0
    /\ unreceivedNames = <<>>
    /\ wrote = {}

\* the step leaves the Record Store, the gauges and the Tracked Pod Sets as they are
\* and takes the scheduler to the next deployment of the listing
PassesOn ==
    /\ pc' = "deploy"
    /\ di' = di + 1
    /\ deployments' = deployments
    /\ allInfo' = allInfo
    /\ avgGauge' = avgGauge
    /\ scaleGauge' = scaleGauge
    /\ updatedDeploy' = updatedDeploy

\* C11: a deployment without selector, a failed pod listing that the gate rejects, an
\* error of doUpdate and a doUpdate call that found partial data each leave the
\* Record Store, the gauges and the Tracked Pod Sets unchanged and take the scheduler
\* to the next deployment of the same listing; the cycle ends only behind the last
\* deployment of the listing; every deployment with a selector that is passed is
\* gated in that step, and a doUpdate call starts from fresh locals whatever happened
\* to the deployments before it.
FaultIsolation ==
    [][ /\ (/\ pc = "deploy"
            /\ di <= Len(deployments)
            /\ ~deployments[di].Selector
            /\ <<pc, di>>' # <<pc, di>>) => PassesOn
        /\ \A m \in DOMAIN gateHist :
               (Visited(m) /\ gateHist'[m].failed /\ ~gateHist'[m].ret) => PassesOn
        /\ (pc = "ret" /\ pc' # "ret" /\ (err \/ ~updated)) => PassesOn
        /\ (pc = "deploy" /\ pc' = "wait") => di > Len(deployments)
        /\ (pc \in {"pod", "status", "check", "ret"} /\ pc' # pc)
               => pc' \in {"pod", "status", "check", "ret", "deploy"}
        /\ (pc = "deploy" /\ di' # di) =>
               /\ di' = di + 1
               /\ deployments[di].Selector =>
                      LET m == meta(deployments[di].Name, deployments[di].Namespace)
                      IN  gateHist'[m].called /\ ~gateHist'[m].ret
        /\ (pc = "deploy" /\ pc' = "pod") =>
               LET m == meta(deployments[di].Name, deployments[di].Namespace)
               IN  gateHist'[m].called /\ gateHist'[m].ret /\ FreshLocals' ]_vars

\* in one cycle d2 failed with an error of doUpdate, d3 was skipped for its missing
\* selector, and d1 was scored
FaultIsolationWitness ==
    /\ deployments = <<D2, D3, D1>>
    /\ di = 3
    /\ gateHist[meta("d2", "default")].pods = <<Q2>>
    /\ gateHist[meta("d2", "default")].ret
    /\ Published
    /\ wrote = {"avg", "scale"}

(***************************************************************************)
(* Shutdown                                                                *)
(***************************************************************************)
\* the scheduler is between the listing of the deployments and the select
InFlight == pc \in {"deploy", "pod", "status", "check", "ret"}

\* C12: the export command does not return, and the process does not end, while a
\* cycle of the scheduler is in flight: the gating and scoring of the remaining
\* deployments, their gauge writes and their Tracked Pod Set updates are done first.
GracefulShutdown == main = "returned" => ~InFlight

(***************************************************************************)
(* The mutex                                                               *)
(***************************************************************************)
\* C13: every insertion into allInfo, every lookup in allInfo and every read and
\* update of updatedDeploy is made by a step that holds mu: no shared map is read
\* or written without it.
SingleMutexDomain == bare = {}

(***************************************************************************)
(* The Pod-Set Tracker                                                     *)
(***************************************************************************)
\* C14: the step that takes the scheduler on from a doUpdate call that returned
\* (true, nil) sets the entry of that deployment in updatedDeploy to the set of the
\* names of the pods passed to the call; every other step (the gate returned false,
\* doUpdate returned false or an error, the deployment was skipped, a push) leaves
\* updatedDeploy as it is; the entries of the other deployments never change.
TrackedPodSetUpdate ==
    [][ /\ (pc = "ret" /\ pc' # "ret" /\ updated /\ ~err)
               => /\ CurM \in DOMAIN updatedDeploy'
                  /\ updatedDeploy'[CurM] = { pods[i].Name : i \in 1..Len(pods) }
        /\ ~(pc = "ret" /\ pc' # "ret" /\ updated /\ ~err)
               => updatedDeploy' = updatedDeploy
        /\ \A m \in DOMAIN updatedDeploy :
               (pc # "ret" \/ m # CurM)
               => (m \in DOMAIN updatedDeploy' /\ updatedDeploy'[m] = updatedDeploy[m])
        /\ \A m \in DOMAIN updatedDeploy' :
               m \notin DOMAIN updatedDeploy => (pc = "ret" /\ m = CurM) ]_vars

\* the entry of d1 was overwritten after p2 had been replaced by p3, and d2, whose
\* doUpdate call ended with an error, has no entry
TrackedPodSetUpdateWitness ==
    /\ pc = "deploy"
    /\ TrackedSet(meta("d1", "default")) = {"p1", "p3"}
    /\ gateHist[meta("d1", "default")].last = {{"p1", "p2"}}
    /\ gateHist[meta("d2", "default")].ret
    /\ meta("d2", "default") \notin DOMAIN updatedDeploy

(***************************************************************************)
(* Unsettled pods                                                          *)
(***************************************************************************)
WhiteSpace == {" ", "\t", "\n", "\r"}

\* the ID is empty or has white space only
Blank(id) == \A k \in 1..Len(id) : id[k] \in WhiteSpace

\* a pod reports no container status, or a container status has a blank ID
Unsettled(ps) ==
    \E i \in 1..Len(ps) :
        \/ Len(ps[i].ContainerStatuses) = 0
        \/ \E j \in 1..Len(ps[i].ContainerStatuses) :
               Blank(ps[i].ContainerStatuses[j].ContainerID)

\* C15: when a live pod reports no container status, or a container status of a live
\* pod has an ID that is empty or white space only, shouldUpdate returns false,
\* with or without a Tracked Pod Set and whether or not the pod names differ from
\* it; doUpdate never runs with such a pod.
GateShortCircuit ==
    /\ \A m \in DOMAIN gateHist :
           (gateHist[m].called /\ Unsettled(gateHist[m].pods)) => ~gateHist[m].ret
    /\ InDoUpdate => ~Unsettled(pods)

(***************************************************************************)
(* The exporter in the cluster "steady" while no termination signal is     *)
(* sent.  The goroutine of the scheduler keeps running and its ticker      *)
(* keeps firing (weak fairness of its steps); the deployment lister does   *)
(* not fail for ever (strong fairness of the listing that succeeds); the   *)
(* collectors push every record they have read until it is stored (weak    *)
(* fairness of its POST).                                                  *)
(***************************************************************************)
SteadyInit == Init /\ world = "steady"

SteadyNext ==
    \/ Push
    \/ ListDeployments
    \/ EndOfDeployments
    \/ SkipDeployment
    \/ VisitDeployment
    \/ EnterPod
    \/ Status
    \/ Check
    \/ Return
    \/ Tick

SteadyFairness ==
    /\ SF_vars(ListDeployments /\ pc' = "deploy")
    /\ WF_vars(ListDeployments)
    /\ WF_vars(EndOfDeployments)
    /\ WF_vars(SkipDeployment)
    /\ WF_vars(VisitDeployment)
    /\ WF_vars(EnterPod)
    /\ WF_vars(Status)
    /\ WF_vars(Check)
    /\ WF_vars(Return)
    /\ WF_vars(Tick)
    /\ \A i \in SteadyInfos : WF_vars(receiveStartupInfo(Request("POST", TRUE, i)))

SteadySpec == SteadyInit /\ [][SteadyNext]_vars /\ SteadyFairness

\* C16: for d1, whose pods stay p1 and p2, each with one container status for its
\* one container and an ID with the prefix, and whose records a and b are pushed:
\* eventually the average-latency gauge of d1 has a value and the Tracked Pod Set of
\* d1 is {p1, p2}; and from the first scoring that wrote the gauge on, no step sets
\* a gauge of d1 or changes its Tracked Pod Set again.
EventualPublication ==
    /\ <>(meta("d1", "default") \in DOMAIN avgGauge
              /\ TrackedSet(meta("d1", "default")) = {"p1", "p2"})
    /\ [][ (meta("d1", "default") \in DOMAIN avgGauge /\ pc # "ret") =>
               /\ wrote' = {}
               /\ avgGauge'[meta("d1", "default")] = avgGauge[meta("d1", "default")]
               /\ scaleGauge' = scaleGauge
               /\ updatedDeploy' = updatedDeploy ]_vars

\* d1 was scored, and since then the gate has returned false for it in two cycles
EventualPublicationWitness ==
    LET d1 == meta("d1", "default")
    IN  /\ world = "steady"
        /\ d1 \in DOMAIN avgGauge
        /\ avgGauge[d1] = Float(115)
        /\ TrackedSet(d1) = {"p1", "p2"}
        /\ gateHist[d1].last = {{"p1", "p2"}}
        /\ gateHist[d1].again
        /\ ~gateHist[d1].ret

(***************************************************************************)
(* Listing errors                                                          *)
(***************************************************************************)
\* C17: when the listing of the deployments fails, the scheduler goes to the select
\* without gating or scoring a deployment; when the listing of the pods of a
\* deployment fails, doUpdate is not called for it and its gauges and its Tracked
\* Pod Set stay as they are; from the select the scheduler starts another cycle,
\* and it leaves the loop only there and only when done can be received from.
ListingErrors ==
    [][ /\ (pc = "list" /\ pc' # "list" /\ deployments' = <<>>) => pc' = "wait"
        /\ \A m \in DOMAIN gateHist :
               (Visited(m) /\ gateHist'[m].failed)
               => (/\ pc' = "deploy"
                   /\ di' = di + 1
                   /\ avgGauge' = avgGauge
                   /\ scaleGauge' = scaleGauge
                   /\ updatedDeploy' = updatedDeploy)
        /\ (pc = "wait" /\ pc' # "wait")
               => (pc' = "list" \/ (pc' = "stopped" /\ CanReceive))
        /\ (pc # "stopped" /\ pc' = "stopped") => pc = "wait" ]_vars

(***************************************************************************)
(* Unfinished containers                                                   *)
(***************************************************************************)
\* C18: no collector pushes a record whose End is 0; hence no record of the Record
\* Store has End = 0, and every record that a doUpdate call has found and added to
\* the total, and so every record behind a published average or scale latency, has
\* End # 0.
NoUnfinishedRecord ==
    /\ \A i \in Infos : i.End # 0
    /\ \A m \in DOMAIN allInfo : allInfo[m].End # 0
    /\ (pc = "ret" /\ wrote # {}) =>
           \A x \in StatusesOf(pods) :
               HasRecord(IDOf(pods, x)) => RecordOf(IDOf(pods, x)).End # 0

\* the collector has read the startup file of b while its end time was 0 and has
\* not pushed it; the record pushed later, (120, 300), is in the published average
NoUnfinishedRecordWitness ==
    /\ world = "steady"
    /\ \E root \in SteadyRoots : \E k \in 1..Len(root["k8s.io"]) :
           /\ root["k8s.io"][k].Name = <<"b">>
           /\ readStartup(root["k8s.io"][k]).ok
           /\ readStartup(root["k8s.io"][k]).end = 0
    /\ Published
    /\ pods = <<P1, P2>>
    /\ RecordOf(CID(<<"b">>)).End = 300
    /\ avgGauge[CurM] = Float(115)

(***************************************************************************)
(* doUpdate against one snapshot of the Record Store                       *)
(***************************************************************************)
\* what doUpdate computes for the deployment m and the pods ps when all its lookups
\* are made at once against allInfo as it is now
AtomicScore(m, ps) ==
    LET found == { x \in StatusesOf(ps) : HasRecord(IDOf(ps, x)) }
        new == { x \in found : ps[x[1]].Name \notin TrackedSet(m) }
        received == TargetCount(ps) - Cardinality(StatusesOf(ps) \ found)
        minStart == IF new = {} THEN MaxInt64 ELSE MinStart(ps, new)
        maxEnd == IF new = {} THEN 0 ELSE MaxEnd(ps, new)
    IN  [publishes |-> ~HasForeign(ps) /\ received # 0 /\ received = TargetCount(ps),
         total |-> SumLatency(ps, found),
         received |-> received,
         window |-> maxEnd > minStart,
         scale |-> maxEnd - minStart]

\* C19: whenever doUpdate publishes, the values it writes are those of a doUpdate
\* that makes all its lookups at once against the Record Store as it is at the
\* moment of publication, whatever pushes were handled between its lookups.
SnapshotConsistency ==
    [][ (pc = "check" /\ pc' = "ret" /\ wrote' # {}) =>
            LET a == AtomicScore(CurM, pods)
            IN  /\ a.publishes
                /\ avgGauge'[CurM] = Quot(a.total, a.received)
                /\ "scale" \in wrote' <=> a.window
                /\ a.window => scaleGauge'[CurM] = Float(a.scale) ]_vars

\* doUpdate has published for three pods, and a new record was stored between two
\* of its lookups
SnapshotConsistencyWitness ==
    /\ Published
    /\ interleaved
    /\ pods = <<P1, P2, P3>>
    /\ wrote = {"avg", "scale"}

(***************************************************************************)
(* The channel done                                                        *)
(***************************************************************************)
\* C20: handleSignals sends one value on done and then closes it: the buffer never
\* holds more than that value, nothing is sent on the closed channel, and done is
\* closed as soon as handleSignals has ended; and every waiter observes the
\* shutdown: when the export command has returned and the process has ended, the
\* scheduler has left its loop, the informers have stopped and the HTTP server has
\* been shut down.
ShutdownFanOut ==
    /\ done.buf <= 1
    /\ hs = "send" => ~done.closed
    /\ hs = "end" => done.closed
    /\ main = "returned" => (pc = "stopped" /\ inf = "stopped" /\ srv = "end")

====
